---- MODULE Spec2Model ----
(***************************************************************************)
(* The game of Hog (hog.py): the simulator's turn resolution (roll_dice,   *)
(* take_turn, select_dice, play) and the memoized optimal-strategy engine  *)
(* (best_num_dice_to_roll, probability_of_winning_by_rolling_n,            *)
(* probability_of_winning_with_turn_end_scores, probability_of_scoring,    *)
(* number_of_ways_to_score, all wrapped by memoized).                      *)
(*                                                                         *)
(* The engine is a process: each wrapped call is a frame on a call stack   *)
(* and each cache is a variable.  The simulator's functions are operators  *)
(* giving the set of results the dice can produce.                         *)
(*                                                                         *)
(* Probabilities are exact rationals [num, den] in lowest terms; Python's  *)
(* float rounding is not modelled.                                         *)
(***************************************************************************)
EXTENDS Integers, Sequences, FiniteSets, TLC

\* ------------------------------------------------------------------------
\* Program constants
\* ------------------------------------------------------------------------
MAX_DICE_ROLLS == 10
GOAL_SCORE == 100

\* ------------------------------------------------------------------------
\* Bounds of the model
\* ------------------------------------------------------------------------
\* Top-level engine calls start from an opponent one point from the goal and
\* a mover among the Trailing best-placed ones whom no roll carries to the
\* goal (or the best-placed one whom Free bacon does not carry there).
Trailing == 1
\* One more top-level start has both players Nesting points short of that:
\* turns can then nest before the goal is reached.
Nesting == 1
\* Number of top-level calls made in one run of the process.
MaxTopCalls == 2
\* Top-level calls of probability_of_winning_with_turn_end_scores take their
\* scores among the multiples of half the goal up to MaxHalves halves.
MaxHalves == 4
\* number_of_ways_to_score is compared with a count of enumerated rolls for
\* up to RefRolls dice.
RefRolls == 4

\* ------------------------------------------------------------------------
\* Exact rational arithmetic (the values of Python's /, *, +, - and >)
\* ------------------------------------------------------------------------
RECURSIVE GCD(_, _)
GCD(a, b) == IF b = 0 THEN a ELSE GCD(b, a % b)

Frac(n, d) ==
    LET g == GCD(n, d) IN [num |-> n \div g, den |-> d \div g]

Zero == Frac(0, 1)
One == Frac(1, 1)

RatAdd(p, q) ==
    LET g == GCD(p.den, q.den)
        l == (p.den \div g) * q.den
    IN Frac(p.num * (l \div p.den) + q.num * (l \div q.den), l)

RatMul(p, q) ==
    LET g1 == GCD(p.num, q.den)
        g2 == GCD(q.num, p.den)
    IN IF p.num = 0 \/ q.num = 0 THEN Zero
       ELSE [num |-> (p.num \div g1) * (q.num \div g2),
             den |-> (p.den \div g2) * (q.den \div g1)]

RatSub(p, q) ==
    LET g == GCD(p.den, q.den)
        l == (p.den \div g) * q.den
    IN Frac(p.num * (l \div p.den) - q.num * (l \div q.den), l)

RatGt(p, q) ==
    LET g == GCD(p.den, q.den)
        l == (p.den \div g) * q.den
    IN p.num * (l \div p.den) > q.num * (l \div q.den)

RECURSIVE pow(_, _)
pow(b, e) == IF e = 0 THEN 1 ELSE b * pow(b, e - 1)

Max(a, b) == IF a >= b THEN a ELSE b

\* ------------------------------------------------------------------------
\* State
\* ------------------------------------------------------------------------
VARIABLES
    cache,      \* memoized: one cache per wrapped function, args -> result
    stack,      \* the wrapped-function bodies in progress, innermost last
    runs,       \* per function, the number of times its body has been started
    last,       \* the call whose body returned last
    topCalls    \* number of top-level calls made so far

vars == <<cache, stack, runs, last, topCalls>>

Functions == {"best", "pwin", "turn_end", "scoring", "ways"}

Empty == [x \in {} |-> 0]

Call(fn, args) == [fn |-> fn, args |-> args]

NoCall == Call("none", <<>>)

\* ------------------------------------------------------------------------
\* memoized (hog.py 304-321): the wrapper's cache
\* ------------------------------------------------------------------------
\* A wrapper that would key a turn end by its pair after the Swine swap (not
\* the program's).
SwappedKey(fn, args) ==
    IF fn = "turn_end" /\ (args[1] * 2 = args[2] \/ args[2] * 2 = args[1])
    THEN <<args[2], args[1]>>
    ELSE args

\* The key of a call in its function's cache: the argument tuple as passed.
CacheKey(fn, args) == args

\* `args in cache`, for the caches c
Cached(c, call) == CacheKey(call.fn, call.args) \in DOMAIN c[call.fn]

\* `return cache[args]`: what the wrapper of fn returns for args, once cached
Get(c, fn, args) == c[fn][CacheKey(fn, args)]

\* A wrapper whose cache would hold its latest entry only (not the
\* program's).
PutEvicting(c, fn, args, result) ==
    [c EXCEPT ![fn] = (CacheKey(fn, args) :> result)]

\* `cache[args] = result`
Put(c, fn, args, result) ==
    [c EXCEPT ![fn] = (CacheKey(fn, args) :> result) @@ @]

\* What a call returns once its tuple is cached.
Value(c, call) == Get(c, call.fn, call.args)

\* ------------------------------------------------------------------------
\* number_of_ways_to_score (hog.py 405-427)
\* ------------------------------------------------------------------------
\* A loop that would start from face 1 (not the program's).
WaysCallsFromOne(k, n, s) ==
    IF n = 0 THEN <<>>
    ELSE [i \in 1..s |-> Call("ways", <<k - i, n - 1, s>>)]

\* The calls of the body, in program order: one per face `dice` = 2..s.
WaysCalls(k, n, s) ==
    IF n = 0 THEN <<>>
    ELSE [i \in 1..(s - 1) |-> Call("ways", <<k - (i + 1), n - 1, s>>)]

\* The while loop from its i-th call on, `ways` accumulated so far.
RECURSIVE WaysLoop(_, _, _, _)
WaysLoop(calls, c, i, ways) ==
    IF i <= Len(calls)
    THEN WaysLoop(calls, c, i + 1, ways + Value(c, calls[i]))
    ELSE ways

\* A base case that would count one way for any k (not the program's).
ways_any_sum(k, n, s, c) ==
    IF n = 0
    THEN 1
    ELSE WaysLoop(WaysCalls(k, n, s), c, 1, 0)

number_of_ways_to_score(k, n, s, c) ==
    IF n = 0
    THEN (IF k = 0 THEN 1 ELSE 0)
    ELSE WaysLoop(WaysCalls(k, n, s), c, 1, 0)

\* ------------------------------------------------------------------------
\* probability_of_scoring (hog.py 429-442)
\* ------------------------------------------------------------------------
ScoringCalls(k, n, s) ==
    IF k = 1 THEN <<>> ELSE <<Call("ways", <<k, n, s>>)>>

probability_of_scoring(k, n, s, c) ==
    IF k = 1
    THEN RatSub(One, Frac(pow(s - 1, n), pow(s, n)))
    ELSE Frac(Value(c, ScoringCalls(k, n, s)[1]), pow(s, n))

\* ------------------------------------------------------------------------
\* probability_of_winning_by_rolling_n (hog.py 350-378)
\* ------------------------------------------------------------------------
\* A Free bacon that would gain nothing (not the program's).
no_bacon(opponent_score) == 0

\* hog.py 360
free_bacon_score(opponent_score) ==
    Max(opponent_score % 10, opponent_score \div 10) + 1

\* An engine that would ignore Hog wild (not the program's).
AlwaysSixSided(score, opponent_score) == 6

\* hog.py 361-364, Hog wild
HogWildSides(score, opponent_score) ==
    IF (score + opponent_score) % 7 = 0 THEN 4 ELSE 6

\* The calls of the body, in program order: the Free bacon turn end for
\* n = 0; else, for possible_score = 1..sides*n, probability_of_scoring and
\* then the turn end.
PwinCalls(score, opponent_score, n) ==
    LET sides == HogWildSides(score, opponent_score)
    IN IF n = 0
       THEN <<Call("turn_end",
                   <<score + free_bacon_score(opponent_score), opponent_score>>)>>
       ELSE [i \in 1..(2 * sides * n) |->
                IF i % 2 = 1
                THEN Call("scoring", <<(i + 1) \div 2, n, sides>>)
                ELSE Call("turn_end", <<score + i \div 2, opponent_score>>)]

\* The while loop from `possible_score` on, `win_probability` so far (a
\* probability, whose value each iteration reads before the next begins).
RECURSIVE PwinLoop(_, _, _, _)
PwinLoop(calls, c, possible_score, win_probability) ==
    IF win_probability.den > 0 /\ 2 * possible_score <= Len(calls)
    THEN PwinLoop(calls, c, possible_score + 1,
                  RatAdd(win_probability,
                         RatMul(Value(c, calls[2 * possible_score - 1]),
                                Value(c, calls[2 * possible_score]))))
    ELSE win_probability

probability_of_winning_by_rolling_n(score, opponent_score, n, c) ==
    LET calls == PwinCalls(score, opponent_score, n)
    IN IF n = 0
       THEN Value(c, calls[1])
       ELSE PwinLoop(calls, c, 1, Zero)

\* ------------------------------------------------------------------------
\* probability_of_winning_with_turn_end_scores (hog.py 380-401)
\* ------------------------------------------------------------------------
\* hog.py 390-392, Swine swap: the condition, and the pair after it
Doubled(score, opponent_score) ==
    score * 2 = opponent_score \/ opponent_score * 2 = score

\* A turn end that would skip the Swine swap (not the program's).
NoSwap(score, opponent_score) == <<score, opponent_score>>

SwineSwap(score, opponent_score) ==
    IF Doubled(score, opponent_score)
    THEN <<opponent_score, score>>
    ELSE <<score, opponent_score>>

\* Checks that would leave out the mover's win (not the program's).
NoWinCheck(score, opponent_score) ==
    IF opponent_score >= GOAL_SCORE THEN "loss" ELSE "none"

\* hog.py 393-396: the win/loss checks, on the pair after the swap; "none"
\* when neither returns.
WinLossChecks(score, opponent_score) ==
    IF score >= GOAL_SCORE THEN "win"
    ELSE IF opponent_score >= GOAL_SCORE THEN "loss"
    ELSE "none"

\* The calls of the body, in program order: none when a check returns; else
\* the opponent's best roll count and then the opponent's win probability
\* with it (a call that exists once the first has returned).
TurnEndCalls(score, opponent_score, c) ==
    LET p == SwineSwap(score, opponent_score)
        best == Call("best", <<p[2], p[1]>>)
    IN IF WinLossChecks(p[1], p[2]) # "none" THEN <<>>
       ELSE IF ~Cached(c, best) THEN <<best>>
       ELSE <<best, Call("pwin", <<p[2], p[1], Value(c, best)>>)>>

probability_of_winning_with_turn_end_scores(score, opponent_score, c) ==
    LET p == SwineSwap(score, opponent_score)
        checks == WinLossChecks(p[1], p[2])
    IN IF checks = "win" THEN One
       ELSE IF checks = "loss" THEN Zero
       ELSE RatSub(One, Value(c, TurnEndCalls(score, opponent_score, c)[2]))

\* ------------------------------------------------------------------------
\* best_num_dice_to_roll (hog.py 323-348)
\* ------------------------------------------------------------------------
\* The calls of the body, in program order: one per num_of_dice = 0..10.
BestCalls(score, opponent_score) ==
    [i \in 1..(MAX_DICE_ROLLS + 1) |->
        Call("pwin", <<score, opponent_score, i - 1>>)]

\* A scan that would replace its best on a tie as well (not the program's).
BetterOrEqual(curr_probability, best_probability) ==
    ~RatGt(best_probability, curr_probability)

\* A scan that would never replace its best (not the program's).
NeverBetter(curr_probability, best_probability) == FALSE

\* hog.py 342: whether the scan replaces its best
Better(curr_probability, best_probability) ==
    RatGt(curr_probability, best_probability)

\* The while loop from `num_of_dice` on.
RECURSIVE BestLoop(_, _, _, _, _)
BestLoop(calls, c, num_of_dice, best_probability, best_num_of_dice) ==
    IF num_of_dice + 1 <= Len(calls)
    THEN LET curr_probability == Value(c, calls[num_of_dice + 1])
         IN IF Better(curr_probability, best_probability)
            THEN BestLoop(calls, c, num_of_dice + 1, curr_probability, num_of_dice)
            ELSE BestLoop(calls, c, num_of_dice + 1, best_probability,
                          best_num_of_dice)
    ELSE best_num_of_dice

best_num_dice_to_roll(score, opponent_score, c) ==
    BestLoop(BestCalls(score, opponent_score), c, 0, Zero, 1)

\* ------------------------------------------------------------------------
\* The memoized functions as one table: the calls a body makes, in program
\* order, and the value it returns once they have all returned.
\* ------------------------------------------------------------------------
Calls(call, c) ==
    LET a == call.args
    IN CASE call.fn = "ways" -> WaysCalls(a[1], a[2], a[3])
         [] call.fn = "scoring" -> ScoringCalls(a[1], a[2], a[3])
         [] call.fn = "pwin" -> PwinCalls(a[1], a[2], a[3])
         [] call.fn = "turn_end" -> TurnEndCalls(a[1], a[2], c)
         [] call.fn = "best" -> BestCalls(a[1], a[2])

Result(call, c) ==
    LET a == call.args
    IN CASE call.fn = "ways" -> number_of_ways_to_score(a[1], a[2], a[3], c)
         [] call.fn = "scoring" -> probability_of_scoring(a[1], a[2], a[3], c)
         [] call.fn = "pwin" ->
                probability_of_winning_by_rolling_n(a[1], a[2], a[3], c)
         [] call.fn = "turn_end" ->
                probability_of_winning_with_turn_end_scores(a[1], a[2], c)
         [] call.fn = "best" -> best_num_dice_to_roll(a[1], a[2], c)

\* The position of a body in progress: the index in Calls of the first call
\* whose result is not cached (every earlier one has returned, and a cached
\* one returns at once); 0 when the body can run to its return.
Pending(call, c) ==
    LET cs == Calls(call, c)
        open == {i \in DOMAIN cs : ~Cached(c, cs[i])}
    IN IF open = {} THEN 0 ELSE CHOOSE i \in open : \A j \in open : i <= j

\* The wrapper's bookkeeping, st = [cache, runs, last] (as the variables).
\* hog.py 317: the wrapped body of call starts.
Started(st, call) ==
    [st EXCEPT !.runs = [@ EXCEPT ![call.fn] = @ + 1]]

\* hog.py 317-319: the body of call returns; its result is stored.
Returned(st, call) ==
    [st EXCEPT
        !.cache = Put(@, call.fn, call.args, Result(call, st.cache)),
        !.last = call]


\* ------------------------------------------------------------------------
\* Phase 1, the simulator (hog.py 18-119): each function as the set of the
\* results it can produce
\* ------------------------------------------------------------------------
\* dice.four_sided, dice.six_sided: the outcomes of a die of `sides` sides
Faces(sides) == 1..sides

\* hog.py 29-39: rolled_one and sum after i of the rolls
RECURSIVE RollStates(_, _)
RollStates(i, sides) ==
    IF i = 0
    THEN {[rolled_one |-> FALSE, sum |-> 0]}
    ELSE {[rolled_one |-> r.rolled_one \/ roll_res = 1, sum |-> r.sum + roll_res] :
             r \in RollStates(i - 1, sides), roll_res \in Faces(sides)}

\* hog.py 42
roll_dice(num_rolls, sides) ==
    {IF r.rolled_one THEN 1 ELSE r.sum : r \in RollStates(num_rolls, sides)}

\* hog.py 56-60
take_turn(num_rolls, opponent_score, sides) ==
    IF num_rolls = 0
    THEN {(IF opponent_score % 10 >= opponent_score \div 10
           THEN opponent_score % 10
           ELSE opponent_score \div 10) + 1}
    ELSE roll_dice(num_rolls, sides)

\* hog.py 75-78: the sides of the dice selected
select_dice(score, opponent_score) ==
    IF (score + opponent_score) % 7 = 0 THEN 4 ELSE 6

\* hog.py 104: the loop condition of play
PlayContinues(score, opponent_score) ==
    score < GOAL_SCORE /\ opponent_score < GOAL_SCORE

\* hog.py 106-115: the pairs <<score, opponent_score>> one iteration of play
\* can end on, the strategy of player `who` having chosen num_rolls
PlayTurn(who, score, opponent_score, num_rolls) ==
    LET dice == select_dice(score, opponent_score)
        turn == IF who = 0
                THEN {<<score + t, opponent_score>> :
                         t \in take_turn(num_rolls, opponent_score, dice)}
                ELSE {<<score, opponent_score + t>> :
                         t \in take_turn(num_rolls, score, dice)}
    IN {IF p[1] * 2 = p[2] \/ p[2] * 2 = p[1] THEN <<p[2], p[1]>> ELSE p :
           p \in turn}

\* ------------------------------------------------------------------------
\* The engine as a process: top-level calls (final_strategy, hog.py 295-302)
\* and the nested calls they trigger, each through the memoized wrapper
\* ------------------------------------------------------------------------
\* The best-placed mover whom Free bacon does not carry to the goal against
\* an opponent one point from it.
Chaser == GOAL_SCORE - 1 - free_bacon_score(GOAL_SCORE - 1)

\* The best-placed mover whom no roll of six-sided dice carries to the goal.
Hopeless == GOAL_SCORE - 1 - 6 * MAX_DICE_ROLLS

StartStates ==
    {<<m, GOAL_SCORE - 1>> : m \in ((Hopeless - Trailing + 1)..Hopeless) \cup {Chaser}}
        \cup {<<GOAL_SCORE - 1 - Nesting, GOAL_SCORE - 1 - Nesting>>}

TopLevel == {Call("best", s) : s \in StartStates}

Init ==
    /\ cache = [fn \in Functions |-> Empty]
    /\ stack = <<>>
    /\ runs = [fn \in Functions |-> 0]
    /\ last = NoCall
    /\ topCalls = 0

Memo == [cache |-> cache, runs |-> runs, last |-> last]

\* A call of an engine function: a cached tuple returns at once, any other
\* starts the wrapped body.
Enter(call) ==
    IF Cached(cache, call)
    THEN UNCHANGED <<stack, runs>>
    ELSE /\ stack' = Append(stack, call)
         /\ runs' = Started(Memo, call).runs

TopLevelCall ==
    /\ stack = <<>>
    /\ topCalls < MaxTopCalls
    /\ \E call \in TopLevel : Enter(call)
    /\ topCalls' = topCalls + 1
    /\ UNCHANGED <<cache, last>>

\* The innermost body reaches a call whose tuple is not cached and whose own
\* body has a call to wait for: the body starts.
NestedCall ==
    /\ stack # <<>>
    /\ LET top == stack[Len(stack)]
           i == Pending(top, cache)
       IN /\ i # 0
          /\ Pending(Calls(top, cache)[i], cache) # 0
          /\ Enter(Calls(top, cache)[i])
    /\ UNCHANGED <<cache, last, topCalls>>

\* The innermost body reaches a call whose tuple is not cached and whose own
\* body finds every tuple it asks for in the caches: the body starts, runs to
\* its return, and its result is stored.
LeafCall ==
    /\ stack # <<>>
    /\ LET top == stack[Len(stack)]
           i == Pending(top, cache)
       IN /\ i # 0
          /\ Pending(Calls(top, cache)[i], cache) = 0
          /\ LET callee == Calls(top, cache)[i]
                 st == Returned(Started(Memo, callee), callee)
             IN /\ cache' = st.cache
                /\ runs' = st.runs
                /\ last' = st.last
    /\ UNCHANGED <<stack, topCalls>>

\* wrapper, hog.py 317-319: the innermost body returns; its result is stored.
Return ==
    /\ stack # <<>>
    /\ LET top == stack[Len(stack)]
       IN /\ Pending(top, cache) = 0
          /\ LET st == Returned(Memo, top)
             IN /\ cache' = st.cache
                /\ last' = st.last
    /\ stack' = SubSeq(stack, 1, Len(stack) - 1)
    /\ UNCHANGED <<runs, topCalls>>

Next == TopLevelCall \/ NestedCall \/ LeafCall \/ Return

Spec == Init /\ [][Next]_vars

\* ------------------------------------------------------------------------
\* Top-level calls of probability_of_winning_with_turn_end_scores on pairs
\* that its win/loss checks decide
\* ------------------------------------------------------------------------
EndScores == {(GOAL_SCORE * i) \div 2 : i \in 0..MaxHalves}

EndPairs ==
    {p \in EndScores \X EndScores :
        TurnEndCalls(p[1], p[2], [fn \in Functions |-> Empty]) = <<>>}

\* One top-level call: a cached pair returns at once; any other runs the
\* body, which calls nothing, to its return.
TurnEndCall ==
    /\ topCalls < MaxTopCalls
    /\ \E p \in EndPairs :
          LET call == Call("turn_end", p)
              st == Returned(Started(Memo, call), call)
          IN IF Cached(cache, call)
             THEN UNCHANGED <<cache, runs, last>>
             ELSE /\ cache' = st.cache
                  /\ runs' = st.runs
                  /\ last' = st.last
    /\ topCalls' = topCalls + 1
    /\ UNCHANGED stack

SpecTurnEnd == Init /\ [][TurnEndCall]_vars

\* ------------------------------------------------------------------------
\* Properties
\* ------------------------------------------------------------------------
Rolls == 0..MAX_DICE_ROLLS

InPlay(score) == score \in 0..(GOAL_SCORE - 1)

Frames == {stack[i] : i \in DOMAIN stack}

\* The states for which best_num_dice_to_roll has returned, and the
\* probability it weighed for roll count n from state s.
Decided == DOMAIN cache["best"]

Chance(s, n) == cache["pwin"][<<s[1], s[2], n>>]

NoChance(s) == \A n \in Rolls : Chance(s, n) = Zero

\* The state that best_num_dice_to_roll has just decided, if any.
JustDecided == IF last.fn = "best" THEN {last.args} ELSE {}

\* C1: for every state with both scores below the goal, the roll count
\* returned by best_num_dice_to_roll is in 0..10 and no roll count has a
\* greater win probability; it is the smallest roll count with that
\* probability, except that it is 1 when no roll count has a probability
\* above 0.
C1_SmallestBestRollCount ==
    \A s \in JustDecided :
        LET r == cache["best"][s]
        IN /\ InPlay(s[1]) /\ InPlay(s[2])
           /\ r \in Rolls
           /\ \A n \in Rolls : ~RatGt(Chance(s, n), Chance(s, r))
           /\ IF NoChance(s)
              THEN r = 1
              ELSE \A n \in 0..(r - 1) : RatGt(Chance(s, r), Chance(s, n))

\* A run in which one state was decided for a roll count above 1 that beats
\* every smaller one, and another by a tie at the maximum.
C1_Witness ==
    /\ \E s \in Decided : cache["best"][s] > 1
    /\ \E s \in Decided :
          /\ cache["best"][s] = 0
          /\ Chance(s, 1) = Chance(s, 0)

\* The post-swap pairs that probability_of_winning_by_rolling_n weighs with
\* a probability other than 0, read off the calls of its body.
EnginePosts(score, opponent_score, n) ==
    LET calls == PwinCalls(score, opponent_score, n)
        weighed == {i \in 1..(Len(calls) \div 2) :
                       Value(cache, calls[2 * i - 1]) # Zero}
    IN IF n = 0
       THEN {SwineSwap(calls[1].args[1], calls[1].args[2])}
       ELSE {SwineSwap(calls[2 * i].args[1], calls[2 * i].args[2]) : i \in weighed}

\* C2: for every pre-turn state and roll count the engine has weighed, the
\* pairs one iteration of play can end on, whichever player moves, are
\* exactly the post-swap pairs the engine weighs with nonzero probability,
\* and play goes on from such a pair exactly when the engine's checks do not
\* decide it.
C2_EngineReproducesTurn ==
    last.fn = "pwin" =>
        LET m == last.args[1]
            o == last.args[2]
            n == last.args[3]
            posts == EnginePosts(m, o, n)
        IN /\ PlayTurn(0, m, o, n) = posts
           /\ {<<p[2], p[1]>> : p \in PlayTurn(1, o, m, n)} = posts
           /\ \A p \in posts :
                 /\ PlayContinues(p[1], p[2]) <=> WinLossChecks(p[1], p[2]) = "none"
                 /\ PlayContinues(p[2], p[1]) <=> WinLossChecks(p[1], p[2]) = "none"

\* The engine has weighed a roll of dice one of whose outcomes play follows
\* with a Swine swap.
C2_Witness ==
    /\ last.fn = "pwin"
    /\ last.args[3] >= 1
    /\ \E t \in take_turn(last.args[3], last.args[2],
                          select_dice(last.args[1], last.args[2])) :
          /\ (last.args[1] + t) * 2 = last.args[2] \/ last.args[2] * 2 = last.args[1] + t
          /\ <<last.args[2], last.args[1] + t>>
                 \in EnginePosts(last.args[1], last.args[2], last.args[3])

\* C3: probability_of_winning_with_turn_end_scores returns what its checks
\* give for the pair as passed when neither score is double the other (1 if
\* score >= goal, else 0 if opponent_score >= goal), and what they give for
\* the exchanged pair otherwise; (goal, 0) gives 1, (0, goal) gives 0, and a
\* mover on at least the goal and exactly double an opponent below the goal
\* gets 0.
C3_SwapBeforeChecks ==
    \A p \in DOMAIN cache["turn_end"] :
        LET v == cache["turn_end"][p]
            a == p[1]
            b == p[2]
        IN /\ IF ~(a * 2 = b \/ b * 2 = a)
              THEN /\ a >= GOAL_SCORE => v = One
                   /\ (a < GOAL_SCORE /\ b >= GOAL_SCORE) => v = Zero
              ELSE /\ b >= GOAL_SCORE => v = One
                   /\ (b < GOAL_SCORE /\ a >= GOAL_SCORE) => v = Zero
           /\ p = <<GOAL_SCORE, 0>> => v = One
           /\ p = <<0, GOAL_SCORE>> => v = Zero
           /\ (a = 2 * b /\ a >= GOAL_SCORE /\ b < GOAL_SCORE) => v = Zero

\* The turn end of a mover on the goal, double the opponent's score, has
\* returned 0, and that of a mover on the goal against 0 has returned 1.
C3_Witness ==
    /\ <<GOAL_SCORE, GOAL_SCORE \div 2>> \in DOMAIN cache["turn_end"]
    /\ cache["turn_end"][<<GOAL_SCORE, GOAL_SCORE \div 2>>] = Zero
    /\ <<GOAL_SCORE, 0>> \in DOMAIN cache["turn_end"]
    /\ cache["turn_end"][<<GOAL_SCORE, 0>>] = One

\* The faces of n dice, none a 1, as functions 1..n -> 2..s, and their sum.
RECURSIVE SumFaces(_, _)
SumFaces(f, n) == IF n = 0 THEN 0 ELSE f[n] + SumFaces(f, n - 1)

RollsSumming(k, n, s) ==
    Cardinality({f \in [1..n -> 2..s] : SumFaces(f, n) = k})

\* C4: what number_of_ways_to_score(k, n, s) returns is the number of
\* ordered sequences of n faces in 2..s with sum k (enumerated for up to
\* RefRolls dice): 1 for k = 0 and n = 0, 0 for any other k and n = 0, 0 for
\* k < 2n or k > s*n, and 4 for (7, 2, 6).
C4_CountsRolls ==
    last.fn = "ways" =>
        LET k == last.args[1]
            n == last.args[2]
            s == last.args[3]
            v == cache["ways"][last.args]
        IN /\ n \in Rolls /\ s \in {4, 6}
           /\ n <= RefRolls => v = RollsSumming(k, n, s)
           /\ n = 0 => v = (IF k = 0 THEN 1 ELSE 0)
           /\ (k < 2 * n \/ k > s * n) => v = 0
           /\ last.args = <<7, 2, 6>> => v = 4

\* number_of_ways_to_score(7, 2, 6) has just returned 4, after a call with a
\* negative k has returned 0.
C4_Witness ==
    /\ last = Call("ways", <<7, 2, 6>>)
    /\ cache["ways"][<<7, 2, 6>>] = 4
    /\ \E t \in DOMAIN cache["ways"] : t[1] < 0 /\ cache["ways"][t] = 0

\* Sums over k = lo..hi of the cached results for n dice of s sides (0 for a
\* k that was never asked for).
RECURSIVE SumWays(_, _, _, _)
SumWays(lo, hi, n, s) ==
    IF lo > hi THEN 0
    ELSE IF lo = hi
         THEN (IF <<lo, n, s>> \in DOMAIN cache["ways"]
               THEN cache["ways"][<<lo, n, s>>]
               ELSE 0)
         ELSE SumWays(lo, (lo + hi) \div 2, n, s)
                 + SumWays((lo + hi) \div 2 + 1, hi, n, s)

RECURSIVE SumScoring(_, _, _, _)
SumScoring(lo, hi, n, s) ==
    IF lo > hi THEN Zero
    ELSE IF lo = hi
         THEN cache["scoring"][<<lo, n, s>>]
         ELSE RatAdd(SumScoring(lo, (lo + hi) \div 2, n, s),
                     SumScoring((lo + hi) \div 2 + 1, hi, n, s))

\* C5: once probability_of_scoring has returned for the last k = s*n of the
\* range that probability_of_winning_by_rolling_n iterates, it has returned
\* for every k in 1..s*n and these probabilities sum to 1; the results of
\* number_of_ways_to_score for n dice of s sides sum to (s-1)^n, and
\* (s^n - (s-1)^n) plus their sum over k = 2..s*n is s^n.
C5_Normalized ==
    (last.fn = "scoring" /\ last.args[1] = last.args[3] * last.args[2]) =>
        LET n == last.args[2]
            s == last.args[3]
        IN /\ n \in 1..MAX_DICE_ROLLS /\ s \in {4, 6}
           /\ \A k \in 1..(s * n) : <<k, n, s>> \in DOMAIN cache["scoring"]
           /\ SumScoring(1, s * n, n, s) = One
           /\ SumWays(-(s * MAX_DICE_ROLLS), s * MAX_DICE_ROLLS, n, s) = pow(s - 1, n)
           /\ (pow(s, n) - pow(s - 1, n)) + SumWays(2, s * n, n, s) = pow(s, n)

\* The distribution of the most dice a turn can roll has just been completed,
\* for four-sided dice after six-sided ones.
C5_Witness ==
    /\ last = Call("scoring", <<4 * MAX_DICE_ROLLS, MAX_DICE_ROLLS, 4>>)
    /\ <<6 * MAX_DICE_ROLLS, MAX_DICE_ROLLS, 6>> \in DOMAIN cache["scoring"]

FramesOf(fn) == Cardinality({i \in DOMAIN stack : stack[i].fn = fn})

\* Every body started is that of a tuple now cached or in progress, each
\* counted once; no tuple is in progress twice, and none in progress is
\* cached.
ComputedOnce ==
    /\ \A fn \in Functions :
          runs[fn] = Cardinality(DOMAIN cache[fn]) + FramesOf(fn)
    /\ \A i, j \in DOMAIN stack : stack[i] = stack[j] => i = j
    /\ \A f \in Frames : ~Cached(cache, f)

\* A step leaves every cache entry in place, with its value: a cache after
\* the step is the cache before it, or that with one entry added.
EntriesKept ==
    \A fn \in Functions :
        \/ cache'[fn] = cache[fn]
        \/ LET added == DOMAIN cache'[fn] \ DOMAIN cache[fn]
           IN /\ Cardinality(added) = 1
              /\ \A k \in added : cache'[fn] = (k :> cache'[fn][k]) @@ cache[fn]

\* C6: over the top-level calls and the nested calls they trigger, the body
\* of each memoized function runs at most once per argument tuple: no tuple
\* is called again while in progress, and no cache entry is ever removed or
\* given another value.
C6_ComputedOncePerTuple == [](ComputedOnce) /\ [][EntriesKept]_vars

\* The same top-level call has been made twice, and its body has run once.
C6_Witness ==
    /\ topCalls = 2
    /\ stack = <<>>
    /\ Cardinality(StartStates \cap Decided) = 1
    /\ runs["best"] = Cardinality(Decided)

Total(call) == call.args[1] + call.args[2]

\* Every body of probability_of_winning_by_rolling_n, in progress or just
\* returned, calls probability_of_winning_with_turn_end_scores with the same
\* opponent_score and a score larger by at least 1; a turn end in progress
\* has a total below twice the goal and calls only states with its total, so
\* the totals of the turn ends in progress strictly increase down the stack
\* and there are at most 2 * goal of them.
TotalIncreases ==
    /\ \A f \in Frames \cup {last} :
          f.fn = "pwin" =>
             LET calls == PwinCalls(f.args[1], f.args[2], f.args[3])
             IN \A i \in DOMAIN calls :
                   calls[i].fn = "turn_end" =>
                      /\ calls[i].args[2] = f.args[2]
                      /\ calls[i].args[1] >= f.args[1] + 1
    /\ \A f \in Frames :
          f.fn = "turn_end" =>
             /\ Total(f) <= 2 * (GOAL_SCORE - 1)
             /\ LET calls == TurnEndCalls(f.args[1], f.args[2], cache)
                IN \A i \in DOMAIN calls : Total(calls[i]) = Total(f)
    /\ \A i, j \in DOMAIN stack :
          (i < j /\ stack[i].fn = "turn_end" /\ stack[j].fn = "turn_end")
              => Total(stack[i]) < Total(stack[j])
    /\ \A i \in DOMAIN stack :
          (i < Len(stack) /\ stack[i].fn = "best")
              => /\ stack[i + 1].fn = "pwin"
                 /\ Total(stack[i + 1]) = Total(stack[i])
    /\ FramesOf("turn_end") <= 2 * GOAL_SCORE

\* The work done so far: the calls made at top level, the bodies in
\* progress, and (twice) the tuples cached.
Work ==
    topCalls + Len(stack)
        + 2 * (Cardinality(DOMAIN cache["best"]) + Cardinality(DOMAIN cache["pwin"])
               + Cardinality(DOMAIN cache["turn_end"])
               + Cardinality(DOMAIN cache["scoring"])
               + Cardinality(DOMAIN cache["ways"]))

\* C7: every evaluation of best_num_dice_to_roll terminates: the total of
\* the scores strictly increases from each roll to its turn ends and is kept
\* by the swap, so the nesting of turns is bounded (TotalIncreases), and
\* every step adds to the work done, which the finitely many tuples bound.
C7_Terminates == [](TotalIncreases) /\ [][Work' > Work]_vars

\* Two turns are nested: the body of one turn end is in progress inside that
\* of another.
C7_Witness == FramesOf("turn_end") >= 2

ValidTurn(fn, args) ==
    /\ InPlay(args[1])
    /\ InPlay(args[2])
    /\ fn = "pwin" => args[3] \in Rolls

\* C8: every call of best_num_dice_to_roll and of
\* probability_of_winning_by_rolling_n, in progress or just returned, has
\* both scores in 0..99 and a roll count in 0..10, and every turn end whose
\* body is waiting for a call has both scores below the goal after the swap.
C8_CallsWithinATurn ==
    /\ \A f \in Frames \cup {last} :
          f.fn \in {"best", "pwin"} => ValidTurn(f.fn, f.args)
    /\ \A f \in Frames :
          f.fn = "turn_end" =>
             LET p == SwineSwap(f.args[1], f.args[2])
             IN p[1] < GOAL_SCORE /\ p[2] < GOAL_SCORE

\* A nested call of best_num_dice_to_roll is in progress, and a turn end on
\* a pair with a score at the goal has just returned without a call.
C8_Witness ==
    /\ \E i \in DOMAIN stack : i > 1 /\ stack[i].fn = "best"
    /\ last.fn = "turn_end"
    /\ last.args[1] >= GOAL_SCORE
    /\ TurnEndCalls(last.args[1], last.args[2], cache) = <<>>

\* C9 as claimed: for every state with both scores below the goal some roll
\* count has a win probability above 0, so the fallback never decides.
C9_FallbackNeverDecides ==
    \A s \in JustDecided :
        (InPlay(s[1]) /\ InPlay(s[2])) => \E n \in Rolls : RatGt(Chance(s, n), Zero)

\* C9 amended: the fallback decides exactly the states in which every roll
\* count has win probability 0, and then returns 1; in every other state the
\* returned roll count has a win probability above 0.
C9_FallbackOnlyWithoutChance ==
    \A s \in JustDecided :
        IF NoChance(s)
        THEN cache["best"][s] = 1
        ELSE RatGt(Chance(s, cache["best"][s]), Zero)

\* A valid state decided by the fallback.
C9_Witness ==
    \E s \in Decided : InPlay(s[1]) /\ InPlay(s[2]) /\ NoChance(s) /\ cache["best"][s] = 1

\* C10 as claimed: a turn end on a pair with one score double the other has
\* its result stored under the exchanged pair.
C10_KeyedAfterSwap ==
    (last.fn = "turn_end" /\ Doubled(last.args[1], last.args[2])) =>
        <<last.args[2], last.args[1]>> \in DOMAIN cache["turn_end"]

\* C10 amended: a turn end on a pair with one score double the other has its
\* result stored under the pair as passed, as every other; the body has run
\* once for each pair in the cache, the exchanged pair of a cached one
\* included.
C10_KeyedAsPassed ==
    /\ (last.fn = "turn_end" /\ Doubled(last.args[1], last.args[2])) =>
          /\ last.args \in DOMAIN cache["turn_end"]
          /\ cache["turn_end"][last.args] =
                 probability_of_winning_with_turn_end_scores(
                     last.args[1], last.args[2], cache)
    /\ runs["turn_end"] = Cardinality(DOMAIN cache["turn_end"])

\* A pair with one score double the other and its exchanged pair each have
\* an entry, and the body has run for each.
C10_Witness ==
    /\ \E p \in DOMAIN cache["turn_end"] :
          /\ p[1] # p[2]
          /\ Doubled(p[1], p[2])
          /\ <<p[2], p[1]>> \in DOMAIN cache["turn_end"]
    /\ runs["turn_end"] = 2

====
